---- MODULE Spec2Model ----
(***************************************************************************)
(* A model of strlit.py, the PGT-A analysis dashboard.                     *)
(*                                                                         *)
(* The script is re-executed from top to bottom on every user interaction. *)
(* One execution of the script is one action of the model: it loads the    *)
(* record table through the process-wide cache, reads the widgets, derives *)
(* the filtered table, renders the metrics, the data table (with the       *)
(* search), the chart inputs, the statistics and the two downloads.  An    *)
(* exception ends the execution at the statement that raised it, so the    *)
(* names bound and the elements rendered after that statement are absent.  *)
(*                                                                         *)
(* Text is modelled as sequences of one-character strings, numbers of the  *)
(* worksheet as naturals, means and quantiles as exact fractions.          *)
(***************************************************************************)
EXTENDS Integers, Sequences, FiniteSets, TLC

\* ------------------------------------------------------------------ bounds
\* Largest number of records in the worksheet.
MaxRows == 3
\* Longest text typed into the search box.
MaxQuery == 1
\* Cap on the counter of completed reads of the worksheet.
MaxReads == 2

\* ------------------------------------------------------- optional values
\* A name that is not bound, a widget without session state, an element
\* that was not rendered in the run.
None == [has |-> FALSE]
Some(v) == [has |-> TRUE, v |-> v]

\* ------------------------------------------------------------- characters
\* Code points of the characters that occur in the modelled worksheet and
\* queries (sorted() and groupby order text by code point).
Ord(c) ==
  CASE c = "(" -> 40 [] c = "." -> 46
    [] c = "0" -> 48 [] c = "1" -> 49 [] c = "2" -> 50 [] c = "3" -> 51
    [] c = "4" -> 52 [] c = "5" -> 53 [] c = "6" -> 54 [] c = "7" -> 55
    [] c = "8" -> 56 [] c = "9" -> 57
    [] c = "A" -> 65 [] c = "B" -> 66 [] c = "L" -> 76 [] c = "X" -> 88
    [] c = "Y" -> 89 [] c = "a" -> 97 [] c = "b" -> 98 [] c = "c" -> 99
    [] c = "l" -> 108 [] c = "o" -> 111 [] c = "x" -> 120 [] c = "y" -> 121

\* Case folding of one character, as re.IGNORECASE compares characters.
Lower(c) ==
  CASE c = "A" -> "a" [] c = "B" -> "b" [] c = "L" -> "l" [] c = "X" -> "x"
    [] c = "Y" -> "y" [] OTHER -> c

\* s < t in Python's ordering of str.
RECURSIVE StrLess(_, _)
StrLess(s, t) ==
  IF t = <<>> THEN FALSE
  ELSE IF s = <<>> THEN TRUE
  ELSE IF Head(s) = Head(t) THEN StrLess(Tail(s), Tail(t))
  ELSE Ord(Head(s)) < Ord(Head(t))

\* The decimal digits of a natural number: str() of an integer cell.
DigitChar(d) == <<"0", "1", "2", "3", "4", "5", "6", "7", "8", "9">>[d + 1]
RECURSIVE Digits(_)
Digits(n) == IF n < 10 THEN <<DigitChar(n)>> ELSE Digits(n \div 10) \o <<DigitChar(n % 10)>>

\* ------------------------------------------------------------ the worksheet
\* The columns of the worksheet, in the worksheet's order.
Columns == <<"Hospital", "hospital_location", "embryo_count", "patient_count",
             "CH-RATE", "AF-RATE", "IC-RATE">>
TextColumns == {"Hospital", "hospital_location"}
NumericColumns == <<"embryo_count", "patient_count", "CH-RATE", "AF-RATE", "IC-RATE">>

MkRow(h, l, e, p, ch, af, ic) ==
  [c \in {Columns[i] : i \in 1..Len(Columns)} |->
     CASE c = "Hospital" -> h [] c = "hospital_location" -> l
       [] c = "embryo_count" -> e [] c = "patient_count" -> p
       [] c = "CH-RATE" -> ch [] c = "AF-RATE" -> af [] c = "IC-RATE" -> ic]

HospA == <<"A">>
HospB == <<"B">>
LocX == <<"L", "o", "c", "X">>
LocY == <<"L", "o", "c", "Y">>

\* The records a worksheet is made of: the three records of the scenario of
\* the specification, and one of hospital B at location LocX.
Row1 == MkRow(HospA, LocX, 10, 4, 50, 30, 1)
Row2 == MkRow(HospB, LocY, 20, 7, 70, 40, 2)
Row3 == MkRow(HospA, LocX, 5, 2, 60, 35, 3)
Row4 == MkRow(HospB, LocX, 8, 3, 40, 30, 3)
RowPool == {Row1, Row2, Row3, Row4}

\* The worksheets: between 1 and n distinct records of the pool, in any order.
Sheets(n) ==
  UNION {{s \in [1..k -> RowPool] : \A i, j \in 1..k : s[i] = s[j] => i = j} : k \in 1..n}

\* The characters of a search query, and the queries.
QueryChars == {"x", ".", "("}
Queries == UNION {[1..k -> QueryChars] : k \in 0..MaxQuery}

RateColumns == <<"CH-RATE", "AF-RATE", "IC-RATE">>

\* ------------------------------------------------------------- data frames
\* A data frame: its row labels (the index) and its rows, in order.
Frame(index, rows) == [index |-> index, rows |-> rows]
NRows(df) == Len(df.rows)
Column(df, c) == [i \in 1..NRows(df) |-> df.rows[i][c]]

\* pd.read_excel: the records of the sheet under a RangeIndex 0..n-1.
read_excel(sheet) == Frame([i \in 1..Len(sheet) |-> i - 1], sheet)

\* DataFrame.__getitem__ with a boolean mask: a new frame of the rows whose
\* mask is True, in order, each under the label it had.
RECURSIVE Picked(_, _)
Picked(mask, n) ==
  IF n = 0 THEN <<>>
  ELSE IF mask[n] THEN Append(Picked(mask, n - 1), n) ELSE Picked(mask, n - 1)
BoolIndex(df, mask) ==
  LET keep == Picked(mask, NRows(df))
  IN Frame([k \in 1..Len(keep) |-> df.index[keep[k]]],
           [k \in 1..Len(keep) |-> df.rows[keep[k]]])

\* DataFrame.reset_index(drop=True): a new frame, same rows, labels 0..n-1.
reset_index(df) == Frame([i \in 1..NRows(df) |-> i - 1], df.rows)

\* Series.unique() that forgets to drop the repeated values.
Unique_KeepAll(s) == s

\* Series.unique(): the distinct values in order of first appearance.
RECURSIVE Unique(_)
Unique(s) ==
  IF s = <<>> THEN <<>>
  ELSE LET u == Unique(SubSeq(s, 1, Len(s) - 1))
           x == s[Len(s)]
       IN IF \E i \in 1..Len(u) : u[i] = x THEN u ELSE Append(u, x)

\* sorted() of a list of str.
RECURSIVE InsertSorted(_, _)
InsertSorted(s, x) ==
  IF s = <<>> THEN <<x>>
  ELSE IF StrLess(x, Head(s)) THEN <<x>> \o s
  ELSE <<Head(s)>> \o InsertSorted(Tail(s), x)
RECURSIVE Sorted(_)
Sorted(s) == IF s = <<>> THEN <<>> ELSE InsertSorted(Sorted(SubSeq(s, 1, Len(s) - 1)), s[Len(s)])

\* The options of a sidebar multiselect.
Options(df, c) == Sorted(Unique(Column(df, c)))
Range(s) == {s[i] : i \in 1..Len(s)}

\* A multiselect created without default=: nothing is selected at first.
DefaultSelection_Empty(df, c) == {}

\* The default of a sidebar multiselect: every option.
DefaultSelection(df, c) == Range(Sorted(Unique(Column(df, c))))

\* Series.isin(values).
isin(col, values) == [i \in 1..Len(col) |-> col[i] \in values]

\* The filter with | in place of & between the two masks.
FilterData_Or(data, location_filter, hospital_filter) ==
  LET m1 == isin(Column(data, "hospital_location"), location_filter)
      m2 == isin(Column(data, "Hospital"), hospital_filter)
  IN reset_index(BoolIndex(data, [i \in 1..NRows(data) |-> m1[i] \/ m2[i]]))

\* The filter followed by sort_values('embryo_count').
RECURSIVE InsertByEmbryo(_, _)
InsertByEmbryo(s, r) ==
  IF s = <<>> THEN <<r>>
  ELSE IF r["embryo_count"] < Head(s)["embryo_count"] THEN <<r>> \o s
  ELSE <<Head(s)>> \o InsertByEmbryo(Tail(s), r)
RECURSIVE SortByEmbryo(_)
SortByEmbryo(s) == IF s = <<>> THEN <<>> ELSE InsertByEmbryo(SortByEmbryo(Tail(s)), Head(s))
FilterData_Sorted(data, location_filter, hospital_filter) ==
  LET m1 == isin(Column(data, "hospital_location"), location_filter)
      m2 == isin(Column(data, "Hospital"), hospital_filter)
      kept == BoolIndex(data, [i \in 1..NRows(data) |-> m1[i] /\ m2[i]])
  IN reset_index(Frame(kept.index, SortByEmbryo(kept.rows)))

\* filtered_data of one run.
FilterData(data, location_filter, hospital_filter) ==
  LET m1 == isin(Column(data, "hospital_location"), location_filter)
      m2 == isin(Column(data, "Hospital"), hospital_filter)
  IN reset_index(BoolIndex(data, [i \in 1..NRows(data) |-> m1[i] /\ m2[i]]))

\* ---------------------------------------------------------------- numbers
\* A float that holds an exact fraction n/d (d > 0, in lowest terms), or nan.
RECURSIVE GCD(_, _)
GCD(a, b) == IF b = 0 THEN a ELSE GCD(b, a % b)
Abs(x) == IF x < 0 THEN -x ELSE x
NaN == [nan |-> TRUE, n |-> 0, d |-> 1]
Frac(n, d) ==
  LET g == GCD(Abs(n), d)
  IN [nan |-> FALSE, n |-> n \div g, d |-> d \div g]
FInt(n) == Frac(n, 1)
FAdd(a, b) == IF a.nan \/ b.nan THEN NaN ELSE Frac(a.n * b.d + b.n * a.d, a.d * b.d)
FMul(a, b) == IF a.nan \/ b.nan THEN NaN ELSE Frac(a.n * b.n, a.d * b.d)
\* Series.sum() of an integer column: 0 on the empty column.
RECURSIVE SeqSum(_)
SeqSum(s) == IF s = <<>> THEN 0 ELSE Head(s) + SeqSum(Tail(s))

\* A mean that guards the empty column with 0.
SeqMean_ZeroOnEmpty(s) == IF Len(s) = 0 THEN Frac(0, 1) ELSE Frac(SeqSum(s), Len(s))

\* Series.mean(): nan on the empty column, never an exception.
SeqMean(s) == IF Len(s) = 0 THEN NaN ELSE Frac(SeqSum(s), Len(s))

\* The integer nearest to n/d (d > 0, n >= 0), ties to the even one: the
\* rounding of the format specification and of round() on an exact value.
RoundHalfEven(n, d) ==
  LET q == n \div d
      r == n % d
  IN IF 2 * r < d THEN q
     ELSE IF 2 * r > d THEN q + 1
     ELSE IF q % 2 = 0 THEN q ELSE q + 1

\* format(x, ',.0f') of a non-negative integer: its digits in groups of
\* three separated by commas.
RECURSIVE Grouped(_)
Grouped(ds) ==
  IF Len(ds) <= 3 THEN ds
  ELSE Grouped(SubSeq(ds, 1, Len(ds) - 3)) \o <<",">> \o SubSeq(ds, Len(ds) - 2, Len(ds))
FormatThousands(n) == Grouped(Digits(n))

\* format(x, '.2f') of a non-negative float: 'nan' for nan, else the value
\* rounded to hundredths with two decimals.
Format2f(x) ==
  IF x.nan THEN <<"n", "a", "n">>
  ELSE LET h == RoundHalfEven(100 * x.n, x.d)
       IN Digits(h \div 100) \o <<".", DigitChar((h % 100) \div 10), DigitChar(h % 10)>>

\* ------------------------------------------------------------ main metrics
\* The six st.metric elements: the aggregate each is computed from and the
\* text it shows.
Metrics(df) ==
  LET ch == SeqMean(Column(df, "CH-RATE"))
      af == SeqMean(Column(df, "AF-RATE"))
      ic == SeqMean(Column(df, "IC-RATE"))
      embryos == SeqSum(Column(df, "embryo_count"))
      patients == SeqSum(Column(df, "patient_count"))
  IN [hospital_count |-> Len(Unique(Column(df, "Hospital"))),
      embryo_total |-> embryos,
      patient_total |-> patients,
      ch_rate_avg |-> ch,
      af_rate_avg |-> af,
      ic_rate_avg |-> ic,
      text |-> [embryos |-> FormatThousands(embryos),
                patients |-> FormatThousands(patients),
                ch |-> Format2f(ch) \o <<"%">>,
                af |-> Format2f(af) \o <<"%">>,
                ic |-> Format2f(ic) \o <<"%">>]]

\* ------------------------------------------------------------------ search
\* DataFrame.astype(str): every cell as text.
CellStr(c, v) == IF c \in TextColumns THEN v ELSE Digits(v)

\* re.compile(search, re.IGNORECASE) over the query characters: '(' opens a
\* group that the query never closes, so a query holding '(' is rejected
\* ("missing ), unterminated subpattern").
re_compile_ok(pat) == \A i \in 1..Len(pat) : pat[i] # "("

\* One pattern character against one character of the text: '.' stands for
\* any character, every other one for itself in either case.
AtomMatches(p, c) == p = "." \/ Lower(p) = Lower(c)

\* pattern.search(text) is not None.
re_search(pat, text) ==
  \E off \in 0..(Len(text) - Len(pat)) :
    \A k \in 1..Len(pat) : AtomMatches(pat[k], text[off + k])

\* Series.str.contains(search, case=False) on one cell (regex=True is the
\* default of str.contains).
str_contains(text, search) == re_search(search, text)

\* A search that drops the other rows from filtered_data in place and binds
\* display_data to the same object.
Search_InPlace(filtered, search) ==
  IF search = <<>> THEN [raised |-> FALSE, df |-> filtered, fresh |-> FALSE]
  ELSE IF NRows(filtered) > 0 /\ ~re_compile_ok(search)
    THEN [raised |-> TRUE, df |-> filtered, fresh |-> FALSE]
  ELSE LET mask == [i \in 1..NRows(filtered) |->
                      \E j \in 1..Len(Columns) :
                        str_contains(CellStr(Columns[j], filtered.rows[i][Columns[j]]), search)]
       IN [raised |-> FALSE, df |-> BoolIndex(filtered, mask), fresh |-> FALSE]

\* Lines 72-76.  DataFrame.apply on a frame without rows returns a copy of
\* the frame and swallows whatever the function raises on its probe, so the
\* pattern is compiled only when there is a row to look at.
\* Result: raised, or the frame bound to display_data and whether that
\* frame is a new object.
Search(filtered, search) ==
  IF search = <<>> THEN [raised |-> FALSE, df |-> filtered, fresh |-> FALSE]
  ELSE IF NRows(filtered) > 0 /\ ~re_compile_ok(search)
    THEN [raised |-> TRUE, df |-> filtered, fresh |-> FALSE]
  ELSE LET mask == [i \in 1..NRows(filtered) |->
                      \E j \in 1..Len(Columns) :
                        str_contains(CellStr(Columns[j], filtered.rows[i][Columns[j]]), search)]
       IN [raised |-> FALSE, df |-> BoolIndex(filtered, mask), fresh |-> TRUE]

\* -------------------------------------------------------------- statistics
\* sorted values of a numeric column (the order statistics of quantile()).
RECURSIVE InsertNum(_, _)
InsertNum(s, x) ==
  IF s = <<>> THEN <<x>>
  ELSE IF x < Head(s) THEN <<x>> \o s
  ELSE <<Head(s)>> \o InsertNum(Tail(s), x)
RECURSIVE SortNum(_)
SortNum(s) == IF s = <<>> THEN <<>> ELSE InsertNum(SortNum(Tail(s)), Head(s))

\* Series.quantile(num/den), linear interpolation between order statistics.
Quantile(s, num, den) ==
  IF Len(s) = 0 THEN NaN
  ELSE LET a == SortNum(s)
           pos == (Len(s) - 1) * num
           lo == pos \div den
           rem == pos % den
       IN IF rem = 0 THEN FInt(a[lo + 1])
          ELSE FAdd(FInt(a[lo + 1]), FMul(FInt(a[lo + 2] - a[lo + 1]), Frac(rem, den)))

\* n * sum(x*y) - sum(x) * sum(y): n*n times the population covariance.
SumProd(x, y) == SeqSum([i \in 1..Len(x) |-> x[i] * y[i]])
Scatter(x, y) == Len(x) * SumProd(x, y) - SeqSum(x) * SeqSum(y)

\* Series.std(): the sample standard deviation (ddof=1), nan below two
\* values.  A standard deviation is kept as the fraction it is the square
\* root of.
Std(s) ==
  IF Len(s) < 2 THEN [sqrt_of |-> NaN]
  ELSE [sqrt_of |-> Frac(Scatter(s, s), Len(s) * (Len(s) - 1))]

SeqMin(s) == IF Len(s) = 0 THEN NaN ELSE FInt(SortNum(s)[1])
SeqMax(s) == IF Len(s) = 0 THEN NaN ELSE FInt(SortNum(s)[Len(s)])

\* DataFrame.describe() of the given numeric columns: one column of
\* statistics per column of the frame.
StatNames == <<"count", "mean", "std", "min", "25%", "50%", "75%", "max">>
Describe(df, cols) ==
  [columns |-> cols,
   stats |-> [j \in 1..Len(cols) |->
     LET s == Column(df, cols[j])
     IN [count |-> FInt(Len(s)), mean |-> SeqMean(s), std |-> Std(s),
         min |-> SeqMin(s), q25 |-> Quantile(s, 1, 4), q50 |-> Quantile(s, 2, 4),
         q75 |-> Quantile(s, 3, 4), max |-> SeqMax(s)]]]

\* One Pearson coefficient: nan without rows, with one row or with a column
\* of zero variance; otherwise the sign of the covariance and the square of
\* the coefficient.
Pearson(x, y) ==
  LET sxy == Scatter(x, y)
      sxx == Scatter(x, x)
      syy == Scatter(y, y)
  IN IF Len(x) = 0 \/ sxx * syy = 0 THEN [nan |-> TRUE, sign |-> 0, square |-> NaN]
     ELSE [nan |-> FALSE,
           sign |-> IF sxy > 0 THEN 1 ELSE IF sxy < 0 THEN -1 ELSE 0,
           square |-> Frac(sxy * sxy, sxx * syy)]

\* DataFrame.corr() of the given columns.
Corr(df, cols) ==
  [a \in 1..Len(cols) |-> [b \in 1..Len(cols) |->
     Pearson(Column(df, cols[a]), Column(df, cols[b]))]]

\* The rows of one group, in frame order.
GroupRows(df, c, key) ==
  LET col == Column(df, c)
  IN BoolIndex(df, [i \in 1..NRows(df) |-> col[i] = key])

\* round(2) of a non-negative float.
Round2(x) == IF x.nan THEN NaN ELSE Frac(RoundHalfEven(100 * x.n, x.d), 100)

\* Lines 163-168: groupby('hospital_location').agg(...).round(2), one row per
\* key, keys in sorted order.
LocationStats(df) ==
  LET keys == Sorted(Unique(Column(df, "hospital_location")))
  IN [k \in 1..Len(keys) |->
       LET g == GroupRows(df, "hospital_location", keys[k])
       IN [hospital_location |-> keys[k],
           embryo_sum |-> SeqSum(Column(g, "embryo_count")),
           embryo_mean |-> Round2(SeqMean(Column(g, "embryo_count"))),
           ch_mean |-> Round2(SeqMean(Column(g, "CH-RATE"))),
           af_mean |-> Round2(SeqMean(Column(g, "AF-RATE"))),
           ic_mean |-> Round2(SeqMean(Column(g, "IC-RATE")))]]

\* Line 117: groupby('Hospital')[rates].mean().reset_index().
AvgData(df) ==
  LET keys == Sorted(Unique(Column(df, "Hospital")))
  IN [k \in 1..Len(keys) |->
       LET g == GroupRows(df, "Hospital", keys[k])
       IN [c \in {"Hospital"} \cup Range(RateColumns) |->
             IF c = "Hospital" THEN keys[k] ELSE SeqMean(Column(g, c))]]

\* Lines 92-136: what the three charts are drawn from.
Charts(df, metric_choice) ==
  LET avg_data == AvgData(df)
  IN [scatter |-> [x |-> Column(df, "embryo_count"), y |-> Column(df, metric_choice),
                   color |-> Column(df, "Hospital"), size |-> Column(df, "embryo_count"),
                   hover |-> Column(df, "hospital_location")],
      bar |-> [x |-> [k \in 1..Len(avg_data) |-> avg_data[k]["Hospital"]],
               y |-> [k \in 1..Len(avg_data) |-> avg_data[k][metric_choice]]],
      box |-> [j \in 1..Len(RateColumns) |-> Column(df, RateColumns[j])]]

\* Lines 138-169: the statistics tab.
Statistics(df) ==
  LET cols == <<"embryo_count", "CH-RATE", "AF-RATE", "IC-RATE">>
  IN [describe |-> Describe(df, cols),
      corr_data |-> Corr(df, cols),
      location_stats |-> LocationStats(df)]

\* ------------------------------------------------------------------ export
\* to_csv() without index=False: every line starts with the index field.
to_csv_WithIndex(df) ==
  <<(<<"">> \o Columns)>> \o
  [i \in 1..NRows(df) |->
     <<Digits(df.index[i])>> \o
     [j \in 1..Len(Columns) |-> CellStr(Columns[j], df.rows[i][Columns[j]])]]

\* DataFrame.to_csv(index=False): the line of column names, then one line
\* per row, the cells in column order.
to_csv(df) ==
  <<Columns>> \o
  [i \in 1..NRows(df) |-> [j \in 1..Len(Columns) |-> CellStr(Columns[j], df.rows[i][Columns[j]])]]

\* DataFrame.to_csv() of a describe() table: the index is written, so each
\* line starts with the row label (the header line with the empty name).
StatValue(st, name) ==
  CASE name = "count" -> st.count [] name = "mean" -> st.mean [] name = "std" -> st.std
    [] name = "min" -> st.min [] name = "25%" -> st.q25 [] name = "50%" -> st.q50
    [] name = "75%" -> st.q75 [] name = "max" -> st.max
describe_to_csv(d) ==
  <<(<<"">> \o d.columns)>> \o
  [i \in 1..Len(StatNames) |->
     <<StatNames[i]>> \o [j \in 1..Len(d.columns) |-> StatValue(d.stats[j], StatNames[i])]]

\* Lines 171-194: the two download buttons.
Downloads(df) ==
  [csv |-> to_csv(df),
   summary |-> describe_to_csv(Describe(df, NumericColumns))]

\* The frames a run can derive from a worksheet, and the values of the
\* metrics, the search and the tabs on each of them, tabulated once (TLC
\* evaluates a function on demand).
DerivedFrames == {read_excel(s) : s \in Sheets(MaxRows) \cup {<<>>}}
ChartsOf == [df \in DerivedFrames, m \in Range(RateColumns) |-> Charts(df, m)] @@ <<>>
StatisticsOf == [df \in DerivedFrames |-> Statistics(df)] @@ <<>>
DownloadsOf == [df \in DerivedFrames |-> Downloads(df)] @@ <<>>
MetricsOf == [df \in DerivedFrames |-> Metrics(df)] @@ <<>>
SearchOf == [df \in DerivedFrames, q \in Queries |-> Search(df, q)] @@ <<>>

\* ------------------------------------------------------------------- state
VARIABLES
  file,           \* the worksheet at 'pre_analysis_last.xlsx', None when there is none
  cache,          \* the entry of load_data in the st.cache_data store of the process
  fileReads,      \* completed reads of the worksheet since the process started
  w_location,     \* session state of the location multiselect
  w_hospital,     \* session state of the hospital multiselect
  w_search,       \* session state of the search box
  w_metric,       \* session state of the metric selectbox
  status,         \* how the last run of the script ended
  data,           \* data of the last run
  filtered_data,  \* filtered_data of the last run
  display_data,   \* display_data of the last run
  ident,          \* the object each of the three names is bound to (0: unbound)
  metrics,        \* the six st.metric elements of the last run
  charts,         \* the chart inputs of the last run
  statistics,     \* the statistics tab of the last run
  downloads       \* the two downloads of the last run

vars == <<file, cache, fileReads, w_location, w_hospital, w_search, w_metric, status,
          data, filtered_data, display_data, ident, metrics, charts, statistics, downloads>>

\* load_data without the @st.cache_data decorator: every call reads.
load_data_NoCache ==
  IF file.has
    THEN [ok |-> TRUE, df |-> read_excel(file.v), cache |-> Some(read_excel(file.v)),
          reads |-> fileReads + 1]
  ELSE [ok |-> FALSE, df |-> None, cache |-> cache, reads |-> fileReads]

\* Lines 8-13.  st.cache_data keeps the value of the first completed call
\* for the process (no ttl, no max_entries, no clear() in the script) and
\* hands out a copy of it on every call; a call that raises stores nothing.
load_data ==
  IF cache.has THEN [ok |-> TRUE, df |-> cache.v, cache |-> cache, reads |-> fileReads]
  ELSE IF file.has
    THEN [ok |-> TRUE, df |-> read_excel(file.v), cache |-> Some(read_excel(file.v)),
          reads |-> fileReads + 1]
  ELSE [ok |-> FALSE, df |-> None, cache |-> cache, reads |-> fileReads]

\* The value a widget returns: its session state, or its default.
WidgetValue(w, default) == IF w.has THEN w.v ELSE default

\* The process has started and no session has run the script yet.
Init ==
  /\ file \in {Some(s) : s \in Sheets(MaxRows)} \cup {None}
  /\ cache = None
  /\ fileReads = 0
  /\ w_location = None /\ w_hospital = None /\ w_search = None /\ w_metric = None
  /\ status = "not run"
  /\ data = None /\ filtered_data = None /\ display_data = None
  /\ ident = [data |-> 0, filtered_data |-> 0, display_data |-> 0]
  /\ metrics = None /\ charts = None /\ statistics = None /\ downloads = None

\* The session state of a widget that a run ending in an exception did not
\* reach: Streamlit releases kept it or dropped it, depending on the release.
AfterException(w) == {w, None}

\* One execution of the script with the given widget state.
RunScript(wl, wh, ws, wm) ==
  LET ld == load_data
  IN /\ IF cache.has THEN TRUE ELSE fileReads < MaxReads
     /\ cache' = ld.cache
     /\ fileReads' = ld.reads
     /\ UNCHANGED file
     /\ IF ~ld.ok
        THEN /\ status' = "LoadError"
             /\ w_location' \in AfterException(wl) /\ w_hospital' \in AfterException(wh)
             /\ w_search' \in AfterException(ws) /\ w_metric' \in AfterException(wm)
             /\ data' = None /\ filtered_data' = None /\ display_data' = None
             /\ ident' = [data |-> 0, filtered_data |-> 0, display_data |-> 0]
             /\ metrics' = None /\ charts' = None /\ statistics' = None /\ downloads' = None
        ELSE LET location_filter == WidgetValue(wl, DefaultSelection(ld.df, "hospital_location"))
                 hospital_filter == WidgetValue(wh, DefaultSelection(ld.df, "Hospital"))
                 filtered == FilterData(ld.df, location_filter, hospital_filter)
                 search == WidgetValue(ws, <<>>)
                 found == SearchOf[filtered, search]
                 metric_choice == WidgetValue(wm, RateColumns[1])
             IN /\ data' = Some(ld.df)
                /\ w_location' = Some(location_filter)
                /\ w_hospital' = Some(hospital_filter)
                /\ filtered_data' = Some(filtered)
                /\ metrics' = Some(MetricsOf[filtered])
                /\ w_search' = Some(search)
                /\ IF found.raised
                   THEN /\ status' = "SearchError"
                        /\ display_data' = None
                        /\ ident' = [data |-> 1, filtered_data |-> 3, display_data |-> 0]
                        /\ w_metric' \in AfterException(wm)
                        /\ charts' = None /\ statistics' = None /\ downloads' = None
                   ELSE /\ status' = "ok"
                        /\ display_data' = Some(found.df)
                        /\ ident' = [data |-> 1, filtered_data |-> 3,
                                     display_data |-> IF found.fresh THEN 4 ELSE 3]
                        /\ w_metric' = Some(metric_choice)
                        /\ charts' = Some(ChartsOf[filtered, metric_choice])
                        /\ statistics' = Some(StatisticsOf[filtered])
                        /\ downloads' = Some(DownloadsOf[filtered])

\* A new browser session opens the page: no widget has session state.
NewSession == RunScript(None, None, None, None)

\* The user reruns the script without touching a widget.
Rerun == status # "not run" /\ RunScript(w_location, w_hospital, w_search, w_metric)

Toggle(set, v) == IF v \in set THEN set \ {v} ELSE set \cup {v}

\* The user adds or removes one option of the location multiselect.
ToggleLocation ==
  /\ status \in {"ok", "SearchError"}
  /\ \E v \in Range(Options(data.v, "hospital_location")) :
       RunScript(Some(Toggle(w_location.v, v)), w_hospital, w_search, w_metric)

\* The user adds or removes one option of the hospital multiselect.
ToggleHospital ==
  /\ status \in {"ok", "SearchError"}
  /\ \E v \in Range(Options(data.v, "Hospital")) :
       RunScript(w_location, Some(Toggle(w_hospital.v, v)), w_search, w_metric)

\* The user commits a new text in the search box.
TypeSearch ==
  /\ status \in {"ok", "SearchError"}
  /\ \E q \in Queries : q # w_search.v /\ RunScript(w_location, w_hospital, Some(q), w_metric)

\* The user picks another metric in the selectbox of the charts (a run that
\* the search ended never rendered the selectbox).
SelectMetric ==
  /\ status = "ok"
  /\ \E m \in Range(RateColumns) :
       m # w_metric.v /\ RunScript(w_location, w_hospital, w_search, Some(m))

Next == NewSession \/ Rerun \/ ToggleLocation \/ ToggleHospital \/ TypeSearch \/ SelectMetric

Spec == Init /\ [][Next]_vars

\* ------------------------------------------- the worksheet changes on disk
\* Somebody replaces the worksheet.
WriteFile ==
  /\ \E s \in Sheets(1) : file' = Some(s) /\ file # Some(s)
  /\ UNCHANGED <<cache, fileReads, w_location, w_hospital, w_search, w_metric, status,
                 data, filtered_data, display_data, ident, metrics, charts, statistics,
                 downloads>>

\* Somebody removes the worksheet.
DeleteFile ==
  /\ file.has /\ file' = None
  /\ UNCHANGED <<cache, fileReads, w_location, w_hospital, w_search, w_metric, status,
                 data, filtered_data, display_data, ident, metrics, charts, statistics,
                 downloads>>

InitFile ==
  /\ Init
  /\ file \in {Some(s) : s \in Sheets(1)} \cup {None}

NextFile == Next \/ WriteFile \/ DeleteFile

SpecFile == InitFile /\ [][NextFile]_vars

\* ------------------------------------------------- vocabulary of the claims
Rows(opt) == opt.v.rows

\* The distinct values of a column, as a set.
Present(df, c) == {df.rows[i][c] : i \in 1..NRows(df)}

\* Row i of the record table satisfies both selections.
Selected(df, i, S_loc, S_hosp) ==
  df.rows[i]["hospital_location"] \in S_loc /\ df.rows[i]["Hospital"] \in S_hosp

\* s can be obtained from t by deleting elements (order kept).
RECURSIVE IsSubsequence(_, _)
IsSubsequence(s, t) ==
  IF s = <<>> THEN TRUE
  ELSE IF t = <<>> THEN FALSE
  ELSE IF Head(s) = Head(t) THEN IsSubsequence(Tail(s), Tail(t))
  ELSE IsSubsequence(s, Tail(t))

\* q occurs in text as a literal substring, letters compared without case.
LiteralContains(text, q) ==
  \E off \in 0..(Len(text) - Len(q)) :
    \A k \in 1..Len(q) : Lower(q[k]) = Lower(text[off + k])

RowContains(row, q) ==
  \E j \in 1..Len(Columns) : LiteralContains(CellStr(Columns[j], row[Columns[j]]), q)

\* The column total, summed from the first row on.
Total(df, c) ==
  LET acc[i \in 0..NRows(df)] == IF i = 0 THEN 0 ELSE acc[i - 1] + df.rows[i][c]
  IN acc[NRows(df)]

\* The number written in decimal digits, commas skipped.
RECURSIVE ParseNat(_)
ParseNat(t) ==
  IF t = <<>> THEN 0
  ELSE IF t[Len(t)] = "," THEN ParseNat(SubSeq(t, 1, Len(t) - 1))
  ELSE 10 * ParseNat(SubSeq(t, 1, Len(t) - 1)) + (Ord(t[Len(t)]) - Ord("0"))

\* The hundredths shown by a text of the form 'ddd.dd%'.
ShownHundredths(t) ==
  100 * ParseNat(SubSeq(t, 1, Len(t) - 4)) + ParseNat(SubSeq(t, Len(t) - 2, Len(t) - 1))

\* m is the arithmetic mean of column c of df, and text shows it to the
\* nearest hundredth.
IsMeanOf(m, text, df, c) ==
  /\ ~m.nan
  /\ m.n * NRows(df) = m.d * Total(df, c)
  /\ text[Len(text)] = "%" /\ text[Len(text) - 3] = "."
  /\ 2 * Abs(ShownHundredths(text) * NRows(df) - 100 * Total(df, c)) <= NRows(df)

\* --------------------------------------------------------------- the claims

\* C1: after every run that derives a filtered table, the filtered table
\* holds exactly the rows of the record table whose hospital_location is a
\* selected location and whose Hospital is a selected hospital: every row of
\* it satisfies both, every row of the record table that satisfies both is in
\* it, once; an empty selection of either kind gives the empty table.
C1_FilterSoundComplete ==
  filtered_data.has =>
    LET S_loc == w_location.v
        S_hosp == w_hospital.v
        f == filtered_data.v
    IN /\ \A k \in 1..NRows(f) :
            f.rows[k]["hospital_location"] \in S_loc /\ f.rows[k]["Hospital"] \in S_hosp
       /\ \A i \in 1..NRows(data.v) :
            Selected(data.v, i, S_loc, S_hosp) => \E k \in 1..NRows(f) : f.rows[k] = data.v.rows[i]
       /\ NRows(f) = Cardinality({i \in 1..NRows(data.v) : Selected(data.v, i, S_loc, S_hosp)})
       /\ (S_loc = {} \/ S_hosp = {}) => NRows(f) = 0

\* A run kept some rows and dropped others, one of them a row at a selected
\* location whose hospital is not selected.
C1_Witness ==
  /\ status = "ok"
  /\ 0 < NRows(filtered_data.v) /\ NRows(filtered_data.v) < NRows(data.v)
  /\ \E i \in 1..NRows(data.v) :
       /\ data.v.rows[i]["hospital_location"] \in w_location.v
       /\ data.v.rows[i]["Hospital"] \notin w_hospital.v

\* C2: a run whose two selections are all the values present in the two
\* columns derives a filtered table equal to the record table, same rows in
\* the same order under the same labels; and a run of a session without
\* widget state (the defaults) has these two selections.
C2_FullSelectionIdentity ==
  [][data'.has =>
       /\ (/\ w_location'.v = Present(data'.v, "hospital_location")
           /\ w_hospital'.v = Present(data'.v, "Hospital"))
          => filtered_data'.v = data'.v
       /\ (~w_location.has /\ ~w_hospital.has)
          => /\ w_location'.v = Present(data'.v, "hospital_location")
             /\ w_hospital'.v = Present(data'.v, "Hospital")]_vars

\* A run with the full selection over a table of several rows, two
\* locations and two hospitals.
C2_Witness ==
  /\ status = "ok"
  /\ NRows(data.v) >= 3
  /\ Cardinality(w_location.v) = 2 /\ Cardinality(w_hospital.v) = 2
  /\ w_location.v = Present(data.v, "hospital_location")
  /\ w_hospital.v = Present(data.v, "Hospital")
  /\ filtered_data.v = data.v

\* C3: the search never raises, and for a non-empty query a row of the
\* filtered table is in the search result exactly when the query, read as a
\* literal text, occurs without regard to case in one of the row's cells.
C3_SearchIsLiteral ==
  /\ status # "SearchError"
  /\ (display_data.has /\ w_search.v # <<>>) =>
       \A i \in 1..NRows(filtered_data.v) :
         (\E k \in 1..NRows(display_data.v) : display_data.v.rows[k] = filtered_data.v.rows[i])
           <=> RowContains(filtered_data.v.rows[i], w_search.v)

\* C4: whatever happens to the worksheet on disk and whatever the sessions
\* do, the worksheet is read at most once while the process lives; once the
\* cache holds the table no step changes the cached table or reads the
\* worksheet again, and the record table of every run is the cached table.
C4_ReadAtMostOnce ==
  [][/\ fileReads' <= 1
     /\ cache.has => (cache' = cache /\ fileReads' = fileReads)
     /\ data'.has => (cache'.has /\ data'.v = cache'.v)]_vars

\* A run has shown the cached table after the worksheet on disk was replaced
\* by a different one (the run could not have read what it shows).
C4_Witness ==
  /\ status = "ok" /\ fileReads = 1
  /\ file.has /\ read_excel(file.v) # cache.v
  /\ data = cache

\* C5: after every run the filtered table is a subsequence of the record
\* table and the search result, when the run derived one, a subsequence of
\* the filtered table (rows are never reordered), so their lengths are
\* ordered the same way.
C5_SubsequenceChain ==
  /\ filtered_data.has =>
       /\ IsSubsequence(Rows(filtered_data), Rows(data))
       /\ NRows(filtered_data.v) <= NRows(data.v)
  /\ display_data.has =>
       /\ IsSubsequence(Rows(display_data), Rows(filtered_data))
       /\ IsSubsequence(Rows(display_data), Rows(data))
       /\ NRows(display_data.v) <= NRows(filtered_data.v)

\* Both derivations dropped rows and kept some: three rows, two of them
\* filtered, one of those found.
C5_Witness ==
  /\ status = "ok"
  /\ w_search.v # <<>>
  /\ 1 <= NRows(display_data.v)
  /\ NRows(display_data.v) < NRows(filtered_data.v)
  /\ NRows(filtered_data.v) < NRows(data.v)

C7_EmptyFilterDegrades ==
  (filtered_data.has /\ NRows(filtered_data.v) = 0) =>
     /\ status = "ok"
     /\ metrics.has /\ display_data.has /\ charts.has /\ statistics.has /\ downloads.has
     /\ metrics.v.hospital_count = 0
     /\ metrics.v.embryo_total = 0 /\ metrics.v.patient_total = 0
     /\ metrics.v.ch_rate_avg.nan /\ metrics.v.af_rate_avg.nan /\ metrics.v.ic_rate_avg.nan
     /\ metrics.v.text.embryos = <<"0">> /\ metrics.v.text.patients = <<"0">>
     /\ metrics.v.text.ch = <<"n", "a", "n", "%">>
     /\ NRows(display_data.v) = 0
     /\ Len(downloads.v.csv) = 1

\* A run over a table with rows whose selection leaves none.
C7_Witness ==
  /\ filtered_data.has /\ NRows(filtered_data.v) = 0 /\ NRows(data.v) >= 2
  /\ w_location.v # {} /\ w_hospital.v # {}

\* C8: the metrics of every run are the number of distinct hospitals, the
\* two column totals and the three column means of the filtered table, each
\* mean shown to the nearest hundredth; on the table of the scenario with
\* the selection ({LocX}, {A}) the filtered table is rows 1 and 3 and the
\* metrics are 1 hospital, 15 embryos and an average CH-RATE of 55.
C8_MetricsOfFilteredTable ==
  metrics.has =>
    LET f == filtered_data.v
        m == metrics.v
    IN /\ m.hospital_count = Cardinality(Present(f, "Hospital"))
       /\ m.embryo_total = Total(f, "embryo_count")
       /\ m.patient_total = Total(f, "patient_count")
       /\ ParseNat(m.text.embryos) = Total(f, "embryo_count")
       /\ ParseNat(m.text.patients) = Total(f, "patient_count")
       /\ NRows(f) > 0 =>
            /\ IsMeanOf(m.ch_rate_avg, m.text.ch, f, "CH-RATE")
            /\ IsMeanOf(m.af_rate_avg, m.text.af, f, "AF-RATE")
            /\ IsMeanOf(m.ic_rate_avg, m.text.ic, f, "IC-RATE")
       /\ (/\ Rows(data) = <<Row1, Row2, Row3>>
           /\ w_location.v = {LocX} /\ w_hospital.v = {HospA})
          => /\ f = Frame(<<0, 1>>, <<Row1, Row3>>)
             /\ m.hospital_count = 1
             /\ m.embryo_total = 15
             /\ m.ch_rate_avg = Frac(55, 1)
             /\ m.text.ch = <<"5", "5", ".", "0", "0", "%">>

\* The scenario: the three-row table, selection ({LocX}, {A}).
C8_Witness ==
  /\ status = "ok"
  /\ Rows(data) = <<Row1, Row2, Row3>>
  /\ w_location.v = {LocX} /\ w_hospital.v = {HospA}

\* C9: the filtered-data download is the line of the column names in the
\* table's column order followed by one line per row of the filtered table,
\* in its order, each with one field per column and nothing else (no index
\* field), the field being the cell as text; the statistics download
\* describes the same filtered table: one column per numeric column, with
\* its count, least and greatest value and mean.
C9_ExportOfFilteredTable ==
  downloads.has =>
    LET f == filtered_data.v
        csv == downloads.v.csv
        summary == downloads.v.summary
    IN /\ csv[1] = Columns
       /\ Len(csv) = NRows(f) + 1
       /\ \A i \in 1..NRows(f) :
            /\ Len(csv[i + 1]) = Len(Columns)
            /\ \A j \in 1..Len(Columns) :
                 IF Columns[j] \in TextColumns
                 THEN csv[i + 1][j] = f.rows[i][Columns[j]]
                 ELSE ParseNat(csv[i + 1][j]) = f.rows[i][Columns[j]]
       /\ Len(summary) = Len(StatNames) + 1
       /\ summary[1] = <<"">> \o NumericColumns
       /\ \A r \in 1..Len(StatNames) : summary[r + 1][1] = StatNames[r]
       /\ \A j \in 1..Len(NumericColumns) :
            LET c == NumericColumns[j]
                vals == {f.rows[i][c] : i \in 1..NRows(f)}
                count == summary[2][j + 1]
                mean == summary[3][j + 1]
                least == summary[5][j + 1]
                greatest == summary[9][j + 1]
            IN /\ count = FInt(NRows(f))
               /\ IF NRows(f) = 0 THEN mean.nan /\ least.nan /\ greatest.nan
                  ELSE /\ mean.n * NRows(f) = mean.d * Total(f, c)
                       /\ least.d = 1 /\ least.n \in vals /\ \A v \in vals : least.n <= v
                       /\ greatest.d = 1 /\ greatest.n \in vals /\ \A v \in vals : v <= greatest.n

\* A run exported a filtered table of several rows that is not the whole
\* record table, while the search shows fewer rows than are exported.
C9_Witness ==
  /\ downloads.has
  /\ 2 <= NRows(filtered_data.v) /\ NRows(filtered_data.v) < NRows(data.v)
  /\ NRows(display_data.v) < NRows(filtered_data.v)

\* C10: between two consecutive runs over the same record table with the
\* same selections, the metrics, the statistics and both downloads are the
\* same, and so are the chart inputs when the chosen metric is the same,
\* whatever the two search queries are.
C10_SearchOnlyAffectsTable ==
  [][(/\ data.has /\ data'.has /\ data' = data
      /\ w_location' = w_location /\ w_hospital' = w_hospital)
     => /\ metrics' = metrics
        /\ statistics' = statistics
        /\ downloads' = downloads
        /\ (w_metric' = w_metric => charts' = charts)]_vars

====
